---------------------------- MODULE Spec2Model ----------------------------
(* Position-based-dynamics cloth simulator of                              *)
(* node_addon/physics/PBD_stretch_bend_gpu.py (class TiClothSimulation).   *)
(*                                                                         *)
(* Numbers.  The Taichi fields are f32; here every real is a fixed-point   *)
(* integer counted in units of 1/One, products and quotients are rounded   *)
(* towards zero (so that negation is exact, as it is for floats), and      *)
(* sqrt, exp and pow are computed on that representation.  A vector is a   *)
(* triple of such numbers; the non-finite vector a division by zero        *)
(* produces (0/0, inf * 0) is NaNVec and poisons whatever is computed      *)
(* from it, as IEEE arithmetic does.                                       *)
(*                                                                         *)
(* Execution model of a @ti.kernel: every for-loop at the outermost scope  *)
(* of the kernel is one parallel task whose iterations run concurrently;   *)
(* the tasks run one after the other; loops nested in a parallel loop run  *)
(* serially inside their iteration; "+=" on a field is an atomic add.      *)
(* ti.static(range(..)) unrolls a loop when the kernel is compiled, which  *)
(* lifts the loops inside it to the outermost scope.                       *)
EXTENDS Integers, Sequences, FiniteSets, TLC

\* ------------------------------------------------------------- bounds
MaxFrames == 2
MaxSubsteps == 2
MaxSolverNum == 2
\* solver iterations of one run: frame_num * substep_num * solver_num
MaxWork == 4

\* ------------------------------------------------- fixed-point numbers
One == 1000

coll_r == (101 * One) \div 100
k_stretch == (9 * One) \div 10
k_bend == (7 * One) \div 10
k_LRA == (5 * One) \div 10
tether_give == (2 * One) \div 10
eps == One \div 1000
Gravity == (98 * One) \div 10
Half == One \div 2

Abs(a) == IF a < 0 THEN -a ELSE a

\* a / b rounded towards zero
Trunc(a, b) == IF (a < 0) = (b < 0) THEN Abs(a) \div Abs(b) ELSE -(Abs(a) \div Abs(b))

Mul(a, b) == Trunc(a * b, One)

FDiv(a, b) == Trunc(a * One, b)

RECURSIVE SqrtSearch(_, _, _)
SqrtSearch(n, lo, hi) ==
    IF lo >= hi THEN lo
    ELSE LET mid == (lo + hi + 1) \div 2
         IN IF mid * mid <= n THEN SqrtSearch(n, mid, hi) ELSE SqrtSearch(n, lo, mid - 1)

\* floor of the square root (math.sqrt, Vector.norm)
ISqrt(n) == SqrtSearch(n, 0, 46340)

RECURSIVE ExpTerms(_, _, _)
ExpTerms(y, term, k) ==
    IF term = 0 THEN 0 ELSE term + ExpTerms(y, Trunc(Mul(term, -y), k), k + 1)

\* ti.exp(-y) for y >= 0, by its power series
ExpNeg(y) == ExpTerms(y, One, 1)

RECURSIVE FPow(_, _)
FPow(r, k) == IF k = 0 THEN One ELSE Mul(FPow(r, k - 1), r)

RECURSIVE RootSearch(_, _, _, _)
RootSearch(b, k, lo, hi) ==
    IF lo >= hi THEN lo
    ELSE LET mid == (lo + hi + 1) \div 2
         IN IF FPow(mid, k) <= b THEN RootSearch(b, k, mid, hi)
            ELSE RootSearch(b, k, lo, mid - 1)

\* pow(b, 1 / k) for 0 <= b <= 1: the k-th root
PowRoot(b, k) == IF k = 1 THEN b ELSE RootSearch(b, k, 0, One)

\* ------------------------------------------------------------- vectors
NaNVec == <<>>
IsNaN(a) == a = NaNVec
Zero3 == <<0, 0, 0>>

VAdd(a, b) == IF IsNaN(a) \/ IsNaN(b) THEN NaNVec ELSE [c \in 1..3 |-> a[c] + b[c]]
VSub(a, b) == IF IsNaN(a) \/ IsNaN(b) THEN NaNVec ELSE [c \in 1..3 |-> a[c] - b[c]]
VScale(s, a) == IF IsNaN(a) THEN NaNVec ELSE [c \in 1..3 |-> Mul(s, a[c])]
VDiv(a, s) ==
    IF IsNaN(a) THEN NaNVec
    ELSE IF s = 0 THEN NaNVec
    ELSE [c \in 1..3 |-> FDiv(a[c], s)]

\* Vector.norm() of a finite vector
Norm(a) == ISqrt(a[1] * a[1] + a[2] * a[2] + a[3] * a[3])

\* Vector.normalized(): self / self.norm(); 0/0 is not a number
Normalized(a) == IF IsNaN(a) THEN NaNVec ELSE VDiv(a, Norm(a))

calc_dist(first, second) == Norm(VSub(second, first))

\* ------------------------------------------------ the host's input data
\* A mesh as bmesh hands it over: vertex coordinates, edges (vertex pairs),
\* faces (vertex loops), the pin group's weight per vertex (NotInGroup for
\* a vertex outside the group) and the attachment group's members in vertex
\* order.  Indices are 0-based as in the source.
NotInGroup == 0 - 1

Tup0(s) == [i \in 0..(Len(s) - 1) |-> s[i + 1]]

Edge2Mesh(pin, attach) ==
    [co |-> Tup0(<< <<0, 0, 0>>, <<One, 0, 0>> >>),
     edges |-> Tup0(<< <<0, 1>> >>),
     faces |-> Tup0(<< >>),
     pin |-> Tup0(pin), attach |-> Tup0(attach)]

Path3Mesh(pin, attach) ==
    [co |-> Tup0(<< <<0, 0, 0>>, <<One, 0, 0>>, <<2 * One, 0, 0>> >>),
     edges |-> Tup0(<< <<0, 1>>, <<2, 1>> >>),
     faces |-> Tup0(<< >>),
     pin |-> Tup0(pin), attach |-> Tup0(attach)]

TriMesh(pin, attach) ==
    [co |-> Tup0(<< <<0, 0, 0>>, <<One, 0, 0>>, <<0, One, 0>> >>),
     edges |-> Tup0(<< <<0, 1>>, <<2, 1>>, <<2, 0>> >>),
     faces |-> Tup0(<< <<0, 1, 2>> >>),
     pin |-> Tup0(pin), attach |-> Tup0(attach)]

FarLoc == <<0, 0, 3 * One>>
ContactLoc == <<(3 * One) \div 2, 0, 0 - (3 * One) \div 10>>

\* where the free vertex 1 of Edge2Mesh is predicted to be after the first
\* predict stage with time_step 100: (1, 0, -dt * dt * 9.8)
CoincidentLoc == <<One, 0, 0 - Mul(One \div 10, Mul(One \div 10, Gravity))>>

\* What the constructor is given: sdf_phy's settings, the cloth object's
\* mesh and the places the collider object is moved to (the first is where it
\* is when the simulation is constructed).
Scenes ==
    { [name |-> "pinned_edge", bm |-> Edge2Mesh(<<One, NotInGroup>>, <<0>>), time_step |-> 100,
       drag_damping |-> 0, enable_LRA |-> TRUE, locs |-> <<FarLoc, ContactLoc>>],
      [name |-> "partial_edge", bm |-> Edge2Mesh(<<One \div 2, NotInGroup>>, <<>>), time_step |-> 500,
       drag_damping |-> 0, enable_LRA |-> FALSE, locs |-> <<FarLoc>>],
      [name |-> "eps_edge", bm |-> Edge2Mesh(<<One, One - eps>>, <<>>), time_step |-> 500,
       drag_damping |-> One, enable_LRA |-> FALSE, locs |-> <<FarLoc, ContactLoc>>],
      [name |-> "free_edge", bm |-> Edge2Mesh(<<NotInGroup, NotInGroup>>, <<>>), time_step |-> 100,
       drag_damping |-> 0, enable_LRA |-> FALSE, locs |-> <<FarLoc, CoincidentLoc>>],
      [name |-> "path", bm |-> Path3Mesh(<<One, NotInGroup, NotInGroup>>, <<0>>), time_step |-> 100,
       drag_damping |-> 0, enable_LRA |-> TRUE, locs |-> <<FarLoc>>],
      [name |-> "pinned_tri", bm |-> TriMesh(<<One, One, One>>, <<1>>), time_step |-> 100,
       drag_damping |-> One, enable_LRA |-> TRUE, locs |-> <<FarLoc, ContactLoc>>] }

\* ---------------------------------------------------------------- state
VARIABLES
    sdf_phy,      \* the scene record the constructor was given
    device, substep_num, solver_num, frame_num, dt,
    vertex_num, edge_num, face_num, link_num, attach_num,
    x, p, v, w,
    link, link_len, link_k, link_idx,
    coll_origin, attach_pos, tether_len,
    c_loc,        \* c_obj.location, owned by the host
    pc,           \* where the program is
    frame, step,  \* loop counters of animate.main
    n,            \* substep_gpu: the unrolled solver iteration being run
    lane,         \* substep_gpu: per link, the state of its loop iteration
    thr,          \* substep_cpu: per solver iteration n, the state of its thread
    published,    \* the positions last handed to nb.mesh_update
    hist          \* record of observations used to state the properties

conf == <<sdf_phy, device, substep_num, solver_num, frame_num, dt,
          vertex_num, edge_num, face_num, link_num, attach_num>>
topo == <<link, link_len, link_k, link_idx, w, attach_pos, tether_len>>
vars == <<conf, topo, x, p, v, coll_origin, c_loc, pc, frame, step, n, lane,
          thr, published, hist>>

Verts == 0..(vertex_num - 1)
Links == 0..(link_num - 1)
Atts == 0..(attach_num - 1)
bm == sdf_phy.bm

Size(f) == Cardinality(DOMAIN f)

\* __init__ up to the call of initialize(): the fields are allocated and
\* zero-filled.
Init ==
    /\ sdf_phy \in Scenes
    /\ device \in {"CPU", "GPU"}
    /\ substep_num \in 1..MaxSubsteps
    /\ solver_num \in 1..MaxSolverNum
    /\ frame_num \in 1..MaxFrames
    /\ frame_num * substep_num * solver_num <= MaxWork
    /\ dt = sdf_phy.time_step
    /\ vertex_num = Size(sdf_phy.bm.co)
    /\ edge_num = Size(sdf_phy.bm.edges)
    /\ face_num = Size(sdf_phy.bm.faces)
    /\ link_num = Size(sdf_phy.bm.edges) + Size(sdf_phy.bm.faces) * 2
    /\ attach_num = IF sdf_phy.enable_LRA THEN Size(sdf_phy.bm.attach) ELSE 0
    /\ x = [i \in DOMAIN sdf_phy.bm.co |-> Zero3]
    /\ p = [i \in DOMAIN sdf_phy.bm.co |-> Zero3]
    /\ v = [i \in DOMAIN sdf_phy.bm.co |-> Zero3]
    /\ w = [i \in DOMAIN sdf_phy.bm.co |-> 0]
    /\ link = [l \in 0..(link_num - 1) |-> <<0, 0>>]
    /\ link_len = [l \in 0..(link_num - 1) |-> 0]
    /\ link_k = [l \in 0..(link_num - 1) |-> 0]
    /\ link_idx = 0
    /\ coll_origin = Zero3
    /\ attach_pos = [a \in 0..(attach_num - 1) |-> Zero3]
    /\ tether_len = [i \in DOMAIN sdf_phy.bm.co |-> [a \in 0..(attach_num - 1) |-> 0]]
    /\ c_loc = sdf_phy.locs[1]
    /\ pc = "new"
    /\ frame = 0
    /\ step = 0
    /\ n = 0
    /\ lane = <<>>
    /\ thr = <<>>
    /\ published = <<>>
    /\ hist = [writes |-> [l \in 0..(link_num - 1) |-> 0],
               substeps |-> 0, pub_frame |-> 0 - 1, pub_substeps |-> 0,
               x_prev |-> <<>>, p_pred |-> <<>>, ref |-> <<>>, rest |-> <<>>]

\* ----------------------------------------------------- Topology builder
\* The link arrays while they are being filled.
LinkState == [link |-> link, link_len |-> link_len, link_k |-> link_k,
              link_idx |-> 0, writes |-> hist.writes]

\* a builder that forgets "link_idx += 1"
PutLinkNoAdvance(ls, pair, len, k) ==
    [link |-> [ls.link EXCEPT ![ls.link_idx] = pair],
     link_len |-> [ls.link_len EXCEPT ![ls.link_idx] = len],
     link_k |-> [ls.link_k EXCEPT ![ls.link_idx] = k],
     link_idx |-> ls.link_idx,
     writes |-> [ls.writes EXCEPT ![ls.link_idx] = @ + 1]]

PutLink(ls, pair, len, k) ==
    [link |-> [ls.link EXCEPT ![ls.link_idx] = pair],
     link_len |-> [ls.link_len EXCEPT ![ls.link_idx] = len],
     link_k |-> [ls.link_k EXCEPT ![ls.link_idx] = k],
     link_idx |-> ls.link_idx + 1,
     writes |-> [ls.writes EXCEPT ![ls.link_idx] = @ + 1]]

\* e.calc_length()
EdgeLength(e) == Norm(VSub(bm.co[e[1]], bm.co[e[2]]))

RECURSIVE set_edges(_, _)
set_edges(ls, i) ==
    IF i >= edge_num THEN ls
    ELSE LET e == bm.edges[ls.link_idx]
         IN set_edges(PutLink(ls, <<e[1], e[2]>>, EdgeLength(e), k_stretch), i + 1)

\* a builder that links the face's first and last vertex first
FaceLinkSkipOne(ls, fv, j) ==
    PutLink(ls, <<fv[1 + j], fv[3 - j]>>,
            calc_dist(bm.co[fv[1 + j]], bm.co[fv[3 - j]]), k_bend)

FaceLink(ls, fv, j) ==
    PutLink(ls, <<fv[1 + j], fv[2 + j]>>,
            calc_dist(bm.co[fv[1 + j]], bm.co[fv[2 + j]]), k_bend)

RECURSIVE set_faces(_, _)
set_faces(ls, i) ==
    IF i >= face_num THEN ls
    ELSE set_faces(FaceLink(FaceLink(ls, bm.faces[i], 0), bm.faces[i], 1), i + 1)

\* lines 130-133: w = 1, overwritten by 1 - weight for a member of the pin group
InverseMass(i) == IF bm.pin[i] = NotInGroup THEN One ELSE One - bm.pin[i]

Initialize ==
    /\ pc = "new"
    /\ LET ls == set_faces(set_edges(LinkState, 0), 0)
           ap == [a \in Atts |-> bm.co[bm.attach[a]]]
       IN /\ attach_pos' = ap
          /\ x' = [i \in Verts |-> bm.co[i]]
          /\ w' = [i \in Verts |-> InverseMass(i)]
          /\ tether_len' = [i \in Verts |-> [a \in Atts |-> calc_dist(bm.co[i], ap[a])]]
          /\ link' = ls.link
          /\ link_len' = ls.link_len
          /\ link_k' = ls.link_k
          /\ link_idx' = ls.link_idx
          /\ hist' = [hist EXCEPT !.writes = ls.writes]
    /\ pc' = "ready"
    /\ UNCHANGED <<conf, p, v, coll_origin, c_loc, frame, step, n, lane, thr, published>>


\* -------------------------------------------------- kernel: the stages
\* line 150: what gravity adds to the velocity of vertex i in one substep
GravityStep(i) == VScale(w[i], VScale(dt, <<0, 0, 0 - Gravity>>))

\* a predict stage whose gravity is not scaled by w
PredictVUnweighted(i) ==
    VScale(ExpNeg(Mul(dt, sdf_phy.drag_damping)),
           VAdd(v[i], VScale(dt, <<0, 0, 0 - Gravity>>)))

\* predict, lines 150-151: v += dt * (0, 0, -9.8) * w;  v *= exp(-dt * drag)
PredictV(i) ==
    VScale(ExpNeg(Mul(dt, sdf_phy.drag_damping)), VAdd(v[i], GravityStep(i)))

\* predict, line 152: p = x + dt * v
PredictP(i) == VAdd(x[i], VScale(dt, PredictV(i)))

\* lines 161-162: dist_diff / tether_len > tether_give, as floats decide it
\* (x / 0 is +inf for x > 0 and not a number for x = 0)
TetherStretched(dist_diff, tl) ==
    IF tl = 0 THEN dist_diff > 0 ELSE FDiv(dist_diff, tl) > tether_give

\* lines 158-165: one (vertex, attachment) pair; what is added to p[vi]
\* (Zero3 when a condition skips the update)
TetherDisp(pv, vi, att) ==
    IF w[vi] > eps /\ ~IsNaN(pv)
    THEN LET d == VSub(pv, attach_pos[att])
             dist == Norm(d)
             dist_diff == dist - tether_len[vi][att]
         IN IF TetherStretched(dist_diff, tether_len[vi][att])
            THEN VScale(k_LRA, VDiv(VScale(Mul(Mul(0 - Half, w[vi]), dist_diff), d), dist))
            ELSE Zero3
    ELSE Zero3

\* lines 157-165: the serial loop over the attachments of one vertex
RECURSIVE TetherVertex(_, _, _)
TetherVertex(pv, vi, att) ==
    IF att >= attach_num THEN pv
    ELSE TetherVertex(VAdd(pv, TetherDisp(pv, vi, att)), vi, att + 1)

\* line 174: kp = 1 - pow(1 - link_k, 1 / (n + 1))
Kp(l, nn) == One - PowRoot(One - link_k[l], nn + 1)

\* line 172: p_01 = p[p0] - p[p1], from the two values loaded
P01(q0, q1) == VSub(q0, q1)

\* lines 178-179 and 183-184: -/+ 0.5 * w * (|p_01| - length) * p_01.normalized()
LinkDp(sign, wgt, p_01, length) ==
    IF IsNaN(p_01) THEN NaNVec
    ELSE VScale(Mul(Mul(sign * Half, wgt), Norm(p_01) - length), Normalized(p_01))

\* lines 177-180: the displacement added to p[link[l][0]], Zero3 when skipped
Disp0(l, p_01, nn) ==
    IF w[link[l][1]] > eps
    THEN VScale(Kp(l, nn), LinkDp(0 - 1, w[link[l][1]], p_01, link_len[l]))
    ELSE Zero3

\* a second endpoint corrected with the first endpoint's inverse mass
Disp1OtherMass(l, p_01, nn) ==
    IF w[link[l][2]] > eps
    THEN VScale(Kp(l, nn), LinkDp(1, w[link[l][1]], p_01, link_len[l]))
    ELSE Zero3

\* lines 182-185: the displacement added to p[link[l][1]], Zero3 when skipped
Disp1(l, p_01, nn) ==
    IF w[link[l][2]] > eps
    THEN VScale(Kp(l, nn), LinkDp(1, w[link[l][2]], p_01, link_len[l]))
    ELSE Zero3

\* "+=": the atomic add of d to entry i
AtomicAdd(pp, i, d) == [pp EXCEPT ![i] = VAdd(@, d)]

\* a collision stage without the "w > eps" test
CollideDispUnguarded(pv, vi) ==
    IF ~IsNaN(pv)
    THEN LET d == VSub(pv, coll_origin)
             dist == Norm(d)
             dist_diff == dist - coll_r
         IN IF dist_diff < 0
            THEN IF dist = 0 THEN NaNVec ELSE VScale(FDiv(0 - dist_diff, dist), d)
            ELSE Zero3
    ELSE Zero3

\* lines 188-194: sphere collision of one vertex; what is added to p[vi]
\* (Zero3 when a condition skips the update; inf * 0 at the centre)
CollideDisp(pv, vi) ==
    IF w[vi] > eps /\ ~IsNaN(pv)
    THEN LET d == VSub(pv, coll_origin)
             dist == Norm(d)
             dist_diff == dist - coll_r
         IN IF dist_diff < 0
            THEN IF dist = 0 THEN NaNVec ELSE VScale(FDiv(0 - dist_diff, dist), d)
            ELSE Zero3
    ELSE Zero3

Collide(pv, vi) == VAdd(pv, CollideDisp(pv, vi))

\* a finalize stage that forgets to subtract x
FinalVNoSub(i) == VDiv(p[i], dt)

\* finalize, line 198: v = (p - x) / dt
FinalV(i) == VDiv(VSub(p[i], x[i]), dt)

\* ------------------------- the stages run in index order (one schedule)
TetherAll(pp) == [vi \in Verts |-> TetherVertex(pp[vi], vi, 0)]

CollideAll(pp) == [vi \in Verts |-> Collide(pp[vi], vi)]

LinkOne(pp, l, nn) ==
    LET p_01 == P01(pp[link[l][1]], pp[link[l][2]])
    IN AtomicAdd(AtomicAdd(pp, link[l][1], Disp0(l, p_01, nn)),
                 link[l][2], Disp1(l, p_01, nn))

RECURSIVE LinkSeq(_, _, _)
LinkSeq(pp, l, nn) == IF l >= link_num THEN pp ELSE LinkSeq(LinkOne(pp, l, nn), l + 1, nn)

RECURSIVE SolveSeq(_, _)
SolveSeq(pp, nn) ==
    IF nn >= solver_num THEN pp
    ELSE SolveSeq(CollideAll(LinkSeq(IF sdf_phy.enable_LRA THEN TetherAll(pp) ELSE pp,
                                     0, nn)), nn + 1)

\* x and v one substep produces when every loop runs in index order
SubstepSeq ==
    LET ps == SolveSeq([i \in Verts |-> PredictP(i)], 0)
    IN [x |-> ps, v |-> [i \in Verts |-> VDiv(VSub(ps[i], x[i]), dt)]]

\* ------------------------------------------------ animate: frame driver
Animate ==
    /\ pc = "ready"
    /\ pc' = "frame"
    /\ frame' = 0
    /\ UNCHANGED <<conf, topo, x, p, v, coll_origin, c_loc, step, n, lane, thr,
                   published, hist>>

\* lines 260-263: the generator runs to its yield
FramePublish ==
    /\ pc = "frame"
    /\ frame < frame_num
    /\ published' = x
    /\ hist' = [hist EXCEPT !.pub_frame = frame, !.pub_substeps = hist.substeps]
    /\ pc' = "yield"
    /\ UNCHANGED <<conf, topo, x, p, v, coll_origin, c_loc, frame, step, n, lane, thr>>

\* line 260: range(frame_num) is exhausted and the generator returns
Finish ==
    /\ pc = "frame"
    /\ frame >= frame_num
    /\ pc' = "done"
    /\ UNCHANGED <<conf, topo, x, p, v, coll_origin, c_loc, frame, step, n, lane, thr,
                   published, hist>>

\* The host moves the collider object while the generator is suspended.
MoveCollider ==
    /\ pc = "yield"
    /\ \E k \in DOMAIN sdf_phy.locs : sdf_phy.locs[k] # c_loc /\ c_loc' = sdf_phy.locs[k]
    /\ UNCHANGED <<conf, topo, x, p, v, coll_origin, pc, frame, step, n, lane, thr,
                   published, hist>>

\* The mesh is at rest: every link has its rest length, nothing moves, gravity
\* adds nothing and the collider (where the host has put it) touches no vertex.
AtRest ==
    /\ \A i \in Verts : ~IsNaN(x[i]) /\ v[i] = Zero3 /\ GravityStep(i) = Zero3
    /\ \A l \in Links : Norm(VSub(x[link[l][1]], x[link[l][2]])) = link_len[l]
    /\ \A i \in Verts : Norm(VSub(x[i], c_loc)) >= coll_r

\* The host resumes the generator: line 265 starts the substep loop.
Resume ==
    /\ pc = "yield"
    /\ step' = 0
    /\ pc' = "refresh"
    /\ hist' = [hist EXCEPT !.rest = [at_rest |-> AtRest, x |-> x]]
    /\ UNCHANGED <<conf, topo, x, p, v, coll_origin, c_loc, frame, n, lane, thr,
                   published>>

\* a driver that does not refresh the collider position
StaleOrigin == coll_origin

\* lines 268-270: coll_origin[0] = c_obj.location
RefreshedOrigin == c_loc

Refresh ==
    /\ pc = "refresh"
    /\ coll_origin' = RefreshedOrigin
    /\ pc' = "predict"
    /\ UNCHANGED <<conf, topo, x, p, v, c_loc, frame, step, n, lane, thr, published, hist>>

\* ------------------------------------------------ kernel: the threads
FirstStage == IF sdf_phy.enable_LRA THEN "lra" ELSE "link"

\* An iteration of the link loop: it loads p[p0], loads p[p1], adds to p[p0],
\* adds to p[p1].  q0 is the loaded p[p0], p_01 the difference, d0 what was
\* added to p[p0].
FreshLane == [mpc |-> "load0", q0 |-> Zero3, p_01 |-> Zero3, d0 |-> Zero3]
DoneLane == [mpc |-> "done", q0 |-> Zero3, p_01 |-> Zero3, d0 |-> Zero3]

\* A thread of substep_cpu's parallel loop over n: the serial loop it is in
\* (stage), the indices in that loop (i, and j for the attachments), and the
\* locals of the iteration it is in.
Position(stage, i, j) ==
    [stage |-> stage, i |-> i, j |-> j,
     mpc |-> IF stage = "link" THEN "load0" ELSE "load",
     q0 |-> Zero3, p_01 |-> Zero3, d0 |-> Zero3]

\* skip the loops that have run out
RECURSIVE Settle(_)
Settle(t) ==
    IF t.stage = "lra" /\ t.i >= vertex_num THEN Settle(Position("link", 0, 0))
    ELSE IF t.stage = "lra" /\ t.j >= attach_num THEN Settle(Position("lra", t.i + 1, 0))
    ELSE IF t.stage = "link" /\ t.i >= link_num THEN Settle(Position("coll", 0, 0))
    ELSE IF t.stage = "coll" /\ t.i >= vertex_num THEN Position("end", 0, 0)
    ELSE t

StartThread == Settle(Position(FirstStage, 0, 0))

\* lines 149-152 (203-206): the predict loop; every iteration touches only
\* its own vertex.  Then the solver part of the kernel is launched.
Predict ==
    /\ pc = "predict"
    /\ v' = [i \in Verts |-> PredictV(i)]
    /\ p' = [i \in Verts |-> PredictP(i)]
    /\ hist' = [hist EXCEPT !.x_prev = x, !.p_pred = [i \in Verts |-> PredictP(i)],
                            !.ref = SubstepSeq]
    /\ IF device = "CPU"
       THEN /\ pc' = "cpu_solve"
            /\ thr' = [t \in 0..(solver_num - 1) |-> StartThread]
            /\ UNCHANGED <<n, lane>>
       ELSE /\ pc' = IF sdf_phy.enable_LRA THEN "gpu_lra" ELSE "gpu_link"
            /\ n' = 0
            /\ lane' = [l \in Links |-> FreshLane]
            /\ UNCHANGED thr
    /\ UNCHANGED <<conf, topo, x, coll_origin, c_loc, frame, step, published>>

\* ---- substep_gpu: the loop over n is unrolled; each inner loop is a task
\* lines 210-219: tether task; an iteration touches only its own vertex
GpuTether ==
    /\ pc = "gpu_lra"
    /\ p' = TetherAll(p)
    /\ pc' = "gpu_link"
    /\ UNCHANGED <<conf, topo, x, v, coll_origin, c_loc, frame, step, n, lane, thr,
                   published, hist>>

\* lines 224-226: iteration l of the link task loads p[p0]
GpuLinkLoad0(l) ==
    /\ pc = "gpu_link"
    /\ lane[l].mpc = "load0"
    /\ lane' = [lane EXCEPT ![l] = [@ EXCEPT !.mpc = "load1", !.q0 = p[link[l][1]]]]
    /\ UNCHANGED <<conf, topo, x, p, v, coll_origin, c_loc, pc, frame, step, n, thr,
                   published, hist>>

\* line 226: it loads p[p1]; p_01 is the difference
GpuLinkLoad1(l) ==
    /\ pc = "gpu_link"
    /\ lane[l].mpc = "load1"
    /\ lane' = [lane EXCEPT ![l] = [mpc |-> "add0", q0 |-> Zero3,
                                    p_01 |-> P01(lane[l].q0, p[link[l][2]]), d0 |-> Zero3]]
    /\ UNCHANGED <<conf, topo, x, p, v, coll_origin, c_loc, pc, frame, step, n, thr,
                   published, hist>>

\* lines 231-234
GpuLinkAdd0(l) ==
    /\ pc = "gpu_link"
    /\ lane[l].mpc = "add0"
    /\ p' = AtomicAdd(p, link[l][1], Disp0(l, lane[l].p_01, n))
    /\ lane' = [lane EXCEPT ![l] = [@ EXCEPT !.mpc = "add1",
                                             !.d0 = Disp0(l, lane[l].p_01, n)]]
    /\ UNCHANGED <<conf, topo, x, v, coll_origin, c_loc, pc, frame, step, n, thr,
                   published, hist>>

\* lines 236-239
GpuLinkAdd1(l) ==
    /\ pc = "gpu_link"
    /\ lane[l].mpc = "add1"
    /\ p' = AtomicAdd(p, link[l][2], Disp1(l, lane[l].p_01, n))
    /\ lane' = [lane EXCEPT ![l] = DoneLane]
    /\ UNCHANGED <<conf, topo, x, v, coll_origin, c_loc, pc, frame, step, n, thr,
                   published, hist>>

\* lines 241-248: the collision task starts when the link task has ended; an
\* iteration touches only its own vertex.  Then the next unrolled iteration.
GpuCollide ==
    /\ pc = "gpu_link"
    /\ \A l \in Links : lane[l].mpc = "done"
    /\ p' = CollideAll(p)
    /\ n' = n + 1
    /\ lane' = [l \in Links |-> FreshLane]
    /\ pc' = IF n + 1 < solver_num
             THEN (IF sdf_phy.enable_LRA THEN "gpu_lra" ELSE "gpu_link")
             ELSE "finalize"
    /\ UNCHANGED <<conf, topo, x, v, coll_origin, c_loc, frame, step, thr, published, hist>>

\* ---- substep_cpu: the loop over n is the parallel task; thread t runs
\* iteration n = t, its inner loops serially
\* lines 158-164: thread t, pair (thr[t].i, thr[t].j): load p[vi], compute dp
CpuTetherLoad(t) ==
    /\ pc = "cpu_solve"
    /\ thr[t].stage = "lra"
    /\ thr[t].mpc = "load"
    /\ thr' = [thr EXCEPT ![t] = [@ EXCEPT !.mpc = "add",
                                           !.d0 = TetherDisp(p[thr[t].i], thr[t].i, thr[t].j)]]
    /\ UNCHANGED <<conf, topo, x, p, v, coll_origin, c_loc, pc, frame, step, n, lane,
                   published, hist>>

\* line 165: p[vi] += k_LRA * dp
CpuTetherAdd(t) ==
    /\ pc = "cpu_solve"
    /\ thr[t].stage = "lra"
    /\ thr[t].mpc = "add"
    /\ p' = AtomicAdd(p, thr[t].i, thr[t].d0)
    /\ thr' = [thr EXCEPT ![t] = Settle(Position("lra", thr[t].i, thr[t].j + 1))]
    /\ UNCHANGED <<conf, topo, x, v, coll_origin, c_loc, pc, frame, step, n, lane,
                   published, hist>>

\* lines 170-172
CpuLinkLoad0(t) ==
    /\ pc = "cpu_solve"
    /\ thr[t].stage = "link"
    /\ thr[t].mpc = "load0"
    /\ thr' = [thr EXCEPT ![t] = [@ EXCEPT !.mpc = "load1", !.q0 = p[link[thr[t].i][1]]]]
    /\ UNCHANGED <<conf, topo, x, p, v, coll_origin, c_loc, pc, frame, step, n, lane,
                   published, hist>>

\* line 172
CpuLinkLoad1(t) ==
    /\ pc = "cpu_solve"
    /\ thr[t].stage = "link"
    /\ thr[t].mpc = "load1"
    /\ thr' = [thr EXCEPT ![t] = [@ EXCEPT !.mpc = "add0", !.q0 = Zero3,
                                           !.p_01 = P01(thr[t].q0, p[link[thr[t].i][2]])]]
    /\ UNCHANGED <<conf, topo, x, p, v, coll_origin, c_loc, pc, frame, step, n, lane,
                   published, hist>>

\* lines 177-180
CpuLinkAdd0(t) ==
    /\ pc = "cpu_solve"
    /\ thr[t].stage = "link"
    /\ thr[t].mpc = "add0"
    /\ p' = AtomicAdd(p, link[thr[t].i][1], Disp0(thr[t].i, thr[t].p_01, t))
    /\ thr' = [thr EXCEPT ![t] = [@ EXCEPT !.mpc = "add1",
                                           !.d0 = Disp0(thr[t].i, thr[t].p_01, t)]]
    /\ UNCHANGED <<conf, topo, x, v, coll_origin, c_loc, pc, frame, step, n, lane,
                   published, hist>>

\* lines 182-185
CpuLinkAdd1(t) ==
    /\ pc = "cpu_solve"
    /\ thr[t].stage = "link"
    /\ thr[t].mpc = "add1"
    /\ p' = AtomicAdd(p, link[thr[t].i][2], Disp1(thr[t].i, thr[t].p_01, t))
    /\ thr' = [thr EXCEPT ![t] = Settle(Position("link", thr[t].i + 1, 0))]
    /\ UNCHANGED <<conf, topo, x, v, coll_origin, c_loc, pc, frame, step, n, lane,
                   published, hist>>

\* lines 188-193: thread t, vertex thr[t].i: load p[vi], compute dp
CpuCollideLoad(t) ==
    /\ pc = "cpu_solve"
    /\ thr[t].stage = "coll"
    /\ thr[t].mpc = "load"
    /\ thr' = [thr EXCEPT ![t] = [@ EXCEPT !.mpc = "add",
                                           !.d0 = CollideDisp(p[thr[t].i], thr[t].i)]]
    /\ UNCHANGED <<conf, topo, x, p, v, coll_origin, c_loc, pc, frame, step, n, lane,
                   published, hist>>

\* line 194: p[vi] += dp
CpuCollideAdd(t) ==
    /\ pc = "cpu_solve"
    /\ thr[t].stage = "coll"
    /\ thr[t].mpc = "add"
    /\ p' = AtomicAdd(p, thr[t].i, thr[t].d0)
    /\ thr' = [thr EXCEPT ![t] = Settle(Position("coll", thr[t].i + 1, 0))]
    /\ UNCHANGED <<conf, topo, x, v, coll_origin, c_loc, pc, frame, step, n, lane,
                   published, hist>>

\* the parallel loop over n has ended: every thread has run its iteration
CpuJoin ==
    /\ pc = "cpu_solve"
    /\ \A t \in DOMAIN thr : thr[t].stage = "end"
    /\ pc' = "finalize"
    /\ UNCHANGED <<conf, topo, x, p, v, coll_origin, c_loc, frame, step, n, lane, thr,
                   published, hist>>

\* lines 196-199 (250-253): the finalize loop, then back in animate.main
Finalize ==
    /\ pc = "finalize"
    /\ v' = [i \in Verts |-> FinalV(i)]
    /\ x' = p
    /\ hist' = [hist EXCEPT !.substeps = @ + 1]
    /\ IF step + 1 < substep_num
       THEN /\ step' = step + 1
            /\ pc' = "refresh"
            /\ UNCHANGED frame
       ELSE /\ frame' = frame + 1
            /\ pc' = "frame"
            /\ UNCHANGED step
    /\ UNCHANGED <<conf, topo, p, coll_origin, c_loc, n, lane, thr, published>>

Next ==
    \/ Initialize
    \/ Animate
    \/ FramePublish
    \/ Finish
    \/ MoveCollider
    \/ Resume
    \/ Refresh
    \/ Predict
    \/ GpuTether
    \/ \E l \in Links : GpuLinkLoad0(l)
    \/ \E l \in Links : GpuLinkLoad1(l)
    \/ \E l \in Links : GpuLinkAdd0(l)
    \/ \E l \in Links : GpuLinkAdd1(l)
    \/ GpuCollide
    \/ \E t \in DOMAIN thr : CpuTetherLoad(t)
    \/ \E t \in DOMAIN thr : CpuTetherAdd(t)
    \/ \E t \in DOMAIN thr : CpuLinkLoad0(t)
    \/ \E t \in DOMAIN thr : CpuLinkLoad1(t)
    \/ \E t \in DOMAIN thr : CpuLinkAdd0(t)
    \/ \E t \in DOMAIN thr : CpuLinkAdd1(t)
    \/ \E t \in DOMAIN thr : CpuCollideLoad(t)
    \/ \E t \in DOMAIN thr : CpuCollideAdd(t)
    \/ CpuJoin
    \/ Finalize

Spec == Init /\ [][Next]_vars

\* ---------------------------------------------------------- properties
tolerance == 4 * eps

Initialized == pc # "new"
InSolver == pc \in {"cpu_solve", "gpu_lra", "gpu_link"}
InKernel == InSolver \/ pc \in {"predict", "finalize"}
\* a substep has ended and the next has not begun
AfterSubstep == hist.substeps > 0 /\ pc \in {"refresh", "frame", "yield", "done"}
Moved == \E j \in Verts : x[j] # bm.co[j]

\* C1  Pinning invariant: a vertex with inverse mass 0 has, after
\* initialize() and whatever substeps, frames and collider positions follow,
\* the position initialize() gave it.
PinningInvariant ==
    Initialized => \A i \in Verts : w[i] = 0 => x[i] = bm.co[i]

PinningWitness ==
    /\ hist.substeps >= 2
    /\ pc = "done"
    /\ coll_origin = ContactLoc
    /\ \E i \in Verts : w[i] = 0
    /\ Moved

IterStarted(k) == IF device = "CPU" THEN thr[k] # StartThread ELSE n >= k
IterEnded(k) == IF device = "CPU" THEN thr[k].stage = "end" ELSE n > k

StageOrderFixed ==
    InSolver => \A a, b \in 0..(solver_num - 1) :
                    (a < b /\ IterStarted(b)) => IterEnded(a)

\* C4 as claimed: when a sphere-collision sub-stage ends, every vertex with
\* w > eps has its predicted position at distance >= coll_r (less the
\* tolerance) from coll_origin.
Contained(pv) == ~IsNaN(pv) /\ Norm(VSub(pv, coll_origin)) >= coll_r - tolerance

CollisionStageEnds ==
    \/ pc = "gpu_link" /\ n' = n + 1
    \/ pc = "cpu_solve" /\ \E t \in DOMAIN thr : thr[t].stage = "coll" /\ thr'[t].stage = "end"

CollisionContainment ==
    [][CollisionStageEnds => \A vi \in Verts : w[vi] > eps => Contained(p'[vi])]_vars

\* C5: the step in which iteration l of the link loop adds to its second
\* endpoint, for a link of finite non-zero length between finite positions.
\* Its first displacement is the d0 it added before, its second p' - p.
FiniteLink(p_01, l) == ~IsNaN(p_01) /\ Norm(p_01) > 0 /\ ~IsNaN(p[link[l][2]])

GpuCorrection(l) ==
    /\ pc = "gpu_link" /\ lane[l].mpc = "add1" /\ lane'[l].mpc = "done"
    /\ FiniteLink(lane[l].p_01, l)

CpuCorrection(t) ==
    /\ pc = "cpu_solve" /\ thr[t].stage = "link" /\ thr[t].mpc = "add1"
    /\ thr'[t] # thr[t]
    /\ FiniteLink(thr[t].p_01, thr[t].i)

SecondDisp(l) == VSub(p'[link[l][2]], p[link[l][2]])

BothMovable(l) == w[link[l][1]] > eps /\ w[link[l][2]] > eps
Opposite(d0, d1) == ~IsNaN(d0) /\ ~IsNaN(d1) /\ \A k \in 1..3 : d0[k] * d1[k] <= 0
Near(a, b) == Abs(a - b) <= tolerance

\* w0 * |d0| = w1 * |d1|, and opposite
ClaimedBalance(l, d0, d1) ==
    /\ Opposite(d0, d1)
    /\ Near(Mul(w[link[l][1]], Norm(d0)), Mul(w[link[l][2]], Norm(d1)))

\* w1 * |d0| = w0 * |d1|, and opposite
WeightedBalance(l, d0, d1) ==
    /\ Opposite(d0, d1)
    /\ Near(Mul(w[link[l][2]], Norm(d0)), Mul(w[link[l][1]], Norm(d1)))

\* C5 as claimed: the displacements are opposite and w0 * disp0 = w1 * disp1.
MassConservationAsClaimed ==
    [][/\ \A l \in Links : (GpuCorrection(l) /\ BothMovable(l)) =>
              ClaimedBalance(l, lane[l].d0, SecondDisp(l))
       /\ \A t \in DOMAIN thr : (CpuCorrection(t) /\ BothMovable(thr[t].i)) =>
              ClaimedBalance(thr[t].i, thr[t].d0, SecondDisp(thr[t].i))]_vars

\* C5 as amended: for a link of finite non-zero length whose endpoints both
\* have w > eps, the two displacements are opposite and proportional to the
\* inverse masses: w1 * disp0 = w0 * disp1 (up to rounding).
MassWeightedCorrection ==
    [][/\ \A l \in Links : (GpuCorrection(l) /\ BothMovable(l)) =>
              WeightedBalance(l, lane[l].d0, SecondDisp(l))
       /\ \A t \in DOMAIN thr : (CpuCorrection(t) /\ BothMovable(thr[t].i)) =>
              WeightedBalance(thr[t].i, thr[t].d0, SecondDisp(thr[t].i))]_vars

\* a link with unequal movable endpoints, stretched, about to correct its
\* second endpoint after moving its first
MassWeightedWitness ==
    /\ pc = "gpu_link"
    /\ \E l \in Links :
          /\ lane[l].mpc = "add1"
          /\ BothMovable(l)
          /\ w[link[l][1]] # w[link[l][2]]
          /\ ~IsNaN(lane[l].d0) /\ Norm(lane[l].d0) > 10 * tolerance

\* C6  Link-set invariant: initialize() writes each of the E + 2F slots once,
\* every link joins two distinct vertices in [0, V), and nothing changes the
\* link arrays afterwards.
LinkSetOK ==
    Initialized =>
        /\ link_num = edge_num + 2 * face_num
        /\ link_idx = link_num
        /\ \A l \in Links :
              /\ hist.writes[l] = 1
              /\ link[l][1] # link[l][2]
              /\ link[l][1] \in Verts /\ link[l][2] \in Verts

LinkSetInvariant ==
    /\ []LinkSetOK
    /\ [][Initialized => UNCHANGED <<link, link_len, link_k, link_idx>>]_vars

LinkSetWitness ==
    /\ pc = "done"
    /\ face_num > 0
    /\ edge_num > 0
    /\ hist.substeps >= 2

\* C7 as claimed: a substep leaves the position of a vertex with w <= eps
\* unchanged.
EpsImmovable ==
    AfterSubstep => \A i \in Verts : w[i] <= eps => x[i] = hist.x_prev[i]

\* C7 as amended: a vertex with w <= eps gets no tether, link or collision
\* correction: through the solver its p stays the predicted x + dt * v, and
\* that is its x after the substep (it is the old x only when dt * v is 0,
\* as for w = 0).
EpsUncorrected ==
    \A i \in Verts : w[i] <= eps =>
        /\ (InSolver \/ pc = "finalize") => p[i] = hist.p_pred[i]
        /\ AfterSubstep => x[i] = hist.p_pred[i]

EpsUncorrectedWitness ==
    /\ AfterSubstep
    /\ \E i \in Verts :
          /\ w[i] > 0 /\ w[i] <= eps
          /\ x[i] # hist.x_prev[i]
          /\ Norm(VSub(x[i], coll_origin)) < coll_r - tolerance

\* C8 as claimed: whichever kernel runs and however it is scheduled, a
\* substep produces one result; it is then the result of the schedule that
\* runs every loop in index order.
KernelEquivalence ==
    AfterSubstep => x = hist.ref.x /\ v = hist.ref.v

\* C9  Idempotent rest state: a frame begun at rest ends with the same x and
\* zero velocities.
RestStateKept ==
    (pc = "frame" /\ frame > 0 /\ hist.rest.at_rest) =>
        /\ x = hist.rest.x
        /\ \A i \in Verts : v[i] = Zero3

RestStateWitness ==
    /\ pc = "frame"
    /\ frame > 0
    /\ hist.rest.at_rest
    /\ substep_num = 2
    /\ link_num > 0

\* C10  Bend links: for face f the slots E + 2f and E + 2f + 1 hold the pairs
\* (verts[0], verts[1]) and (verts[1], verts[2]) with stiffness k_bend; each
\* joins a pair a stretch link (slots 0..E-1, k_stretch) joins with the same
\* rest length, and every link joins the endpoints of a mesh edge.
SamePair(a, b) == {a[1], a[2]} = {b[1], b[2]}

BendLinksOnEdges ==
    Initialized =>
        /\ \A f \in 0..(face_num - 1) : \A j \in 0..1 :
              LET l == edge_num + 2 * f + j
              IN /\ link[l] = <<bm.faces[f][1 + j], bm.faces[f][2 + j]>>
                 /\ link_k[l] = k_bend
                 /\ \E e \in 0..(edge_num - 1) :
                       /\ SamePair(link[e], link[l])
                       /\ link_k[e] = k_stretch
                       /\ link_len[e] = link_len[l]
        /\ \A l \in Links : \E e \in DOMAIN bm.edges : SamePair(bm.edges[e], link[l])

BendLinksWitness ==
    /\ pc = "ready"
    /\ face_num > 0
    /\ link_k[link_num - 1] = k_bend
=============================================================================
